---- MODULE Spec2Model ----
(***************************************************************************)
(* Model of app/optimizer/optimizer.py: the cutting-stock engine           *)
(* optimize_boards(cuts, boards) with its pattern generator, its integer   *)
(* program and its best-fit-decreasing packer.                             *)
(*                                                                         *)
(* A call is a sequence of steps (pc): partition, then for every           *)
(* cross-section group validate/aggregate, generate patterns, build the    *)
(* integer program, solve, extract and pack; then return.  An exception    *)
(* ends the call in pc = "failed" with no result.                          *)
(*                                                                         *)
(* Python dicts are functions whose DOMAIN is the key set; lists are       *)
(* sequences.  Board indices are 0-based as in the code (enumerate).       *)
(* The solver (SCIP through pywraplp) is the one external part: Solve      *)
(* returns any assignment that is optimal for the model the code built.    *)
(*                                                                         *)
(* Spec is one call with a solver that proves optimality; SpecCalls is a   *)
(* series of calls; SpecSolver is one call with a solver that may be       *)
(* absent, answer with any status or not answer; SpecUnits is a direct     *)
(* call of _pack_cuts_into_boards or of _generate_cutting_patterns;        *)
(* SpecSplit is a series of calls whose requests for a length are split    *)
(* and joined.                                                             *)
(***************************************************************************)
EXTENDS Integers, Sequences, FiniteSets, TLC

VARIABLES
    cuts,               \* argument: list of cut dicts
    boards,             \* argument: list of board dicts
    pc,                 \* position of the call
    cut_groups,         \* cross-sections of the cuts, in dict insertion order
    gi,                 \* position of the group loop (line 192) in cut_groups
    cut_requirements,   \* {cut_length: quantity} of the current group
    board_patterns,     \* list of (board_idx, patterns) of the current group
    pattern_vars,       \* list of solver variables of the current group
    solution,           \* solution_value() of every variable, in order
    solver_log,         \* what the solver answered in this call, per group
    total_board_plan,
    total_cut_plan,
    total_cost,
    waste_summary,
    result,             \* <<>> or <<returned dict>>
    error,              \* <<>> or <<raised RuntimeError>>
    last,               \* <<>> or <<an earlier finished call: inputs, outcome>>
    fn_pc,              \* position of a direct call of one of the two helpers
    fn_cuts_list,          \* _pack_cuts_into_boards: argument
    fn_cut_lengths,        \* _generate_cutting_patterns: argument
    fn_board_length,       \* argument of both helpers
    fn_max_patterns,       \* _generate_cutting_patterns: argument
    fn_sorted_cuts,        \* _pack_cuts_into_boards: what the loop of line 133 has still to place
    open_boards,        \* _pack_cuts_into_boards: boards, the list of [remaining, cuts]
    returned            \* <<>> or <<value returned by the helper>>

\* the variables of a direct call of a helper
units == <<fn_pc, fn_cuts_list, fn_cut_lengths, fn_board_length, fn_max_patterns, fn_sorted_cuts, open_boards, returned>>

\* the variables of a call of optimize_boards
call_vars == <<cuts, boards, pc, cut_groups, gi, cut_requirements, board_patterns,
               pattern_vars, solution, solver_log, total_board_plan,
               total_cut_plan, total_cost, waste_summary, result, error, last>>

vars == <<call_vars, units>>

----
(* Bounds of the model *)

MaxQty == 4
MaxCuts == 2
MaxPieces == 6
MaxCallQty == 5

(* Program constants *)

MaxPatterns == 1000
BoundMultiplier == 2

----
(* Generic helpers for dicts and lists *)

EmptyDict == [k \in {} |-> 0]

Get(d, k, default) == IF k \in DOMAIN d THEN d[k] ELSE default

Put(d, k, v) == [x \in (DOMAIN d) \cup {k} |-> IF x = k THEN v ELSE d[x]]

Del(d, k) == [x \in (DOMAIN d) \ {k} |-> d[x]]

RECURSIVE SumSeq(_)
SumSeq(s) == IF s = <<>> THEN 0 ELSE Head(s) + SumSeq(Tail(s))

RECURSIVE SumValues(_)
SumValues(d) ==
    IF DOMAIN d = {} THEN 0
    ELSE LET k == CHOOSE x \in DOMAIN d : TRUE
         IN d[k] + SumValues(Del(d, k))

RECURSIVE Repeat(_, _)
Repeat(x, n) == IF n <= 0 THEN <<>> ELSE <<x>> \o Repeat(x, n - 1)

MaxOf(S) == CHOOSE x \in S : \A y \in S : y <= x

MinOf(S) == CHOOSE x \in S : \A y \in S : x <= y

\* sorted(set, reverse=True)
RECURSIVE SortedSetDesc(_)
SortedSetDesc(S) ==
    IF S = {} THEN <<>>
    ELSE <<MaxOf(S)>> \o SortedSetDesc(S \ {MaxOf(S)})

----
(* _generate_cutting_patterns, lines 63-107.  A pattern is a dict           *)
(* {cut_length: count}.                                                     *)

\* sum(k * v for k, v in p.items())
RECURSIVE PatternUsed(_)
PatternUsed(p) ==
    IF DOMAIN p = {} THEN 0
    ELSE LET k == CHOOSE x \in DOMAIN p : TRUE
         IN k * p[k] + PatternUsed(Del(p, k))

\* current_pattern[cut_len] = current_pattern.get(cut_len, 0) + 1
AddCut(p, cut_len) == Put(p, cut_len, Get(p, cut_len, 0) + 1)

\* generate_recursive, lines 81-100; patterns is threaded through the calls,
\* the backtracking of lines 98-100 restores current_pattern for the caller;
\* lens is cut_lengths_sorted and cap is max_patterns
RECURSIVE generate_recursive(_, _, _, _, _, _)
RECURSIVE generate_loop(_, _, _, _, _, _)
RECURSIVE generate_loop_from_start(_, _, _, _, _, _)
RECURSIVE generate_loop_no_repeat(_, _, _, _, _, _)
\* generate_recursive without the test of lines 83-84: it records past max_patterns
generate_recursive_uncapped(remaining_length, current_pattern, start_idx, patterns, lens, cap) ==
    generate_loop(remaining_length, current_pattern, start_idx,
                  IF SumValues(current_pattern) > 0
                  THEN Append(patterns, current_pattern)
                  ELSE patterns,
                  lens, cap)

\* the for loop with the inner call restarting at the first length instead of i
generate_loop_from_start(remaining_length, current_pattern, i, patterns, lens, cap) ==
    IF i > Len(lens) THEN patterns
    ELSE LET cut_len == lens[i]
             after == IF cut_len <= remaining_length
                      THEN generate_recursive(remaining_length - cut_len,
                                              AddCut(current_pattern, cut_len), 1,
                                              patterns, lens, cap)
                      ELSE patterns
         IN IF Len(after) >= Len(patterns)
            THEN generate_loop_from_start(remaining_length, current_pattern, i + 1, after, lens, cap)
            ELSE after

\* the for loop with the inner call starting after i: no length is taken twice
generate_loop_no_repeat(remaining_length, current_pattern, i, patterns, lens, cap) ==
    IF i > Len(lens) THEN patterns
    ELSE LET cut_len == lens[i]
             after == IF cut_len <= remaining_length
                      THEN generate_recursive(remaining_length - cut_len,
                                              AddCut(current_pattern, cut_len), i + 1,
                                              patterns, lens, cap)
                      ELSE patterns
         IN IF Len(after) >= Len(patterns)
            THEN generate_loop_no_repeat(remaining_length, current_pattern, i + 1, after, lens, cap)
            ELSE after

\* generate_recursive without the test of line 87: the empty pattern is recorded too
generate_recursive_keeps_empty(remaining_length, current_pattern, start_idx, patterns, lens, cap) ==
    IF Len(patterns) >= cap THEN patterns
    ELSE generate_loop(remaining_length, current_pattern, start_idx, Append(patterns, current_pattern), lens, cap)

generate_recursive(remaining_length, current_pattern, start_idx, patterns, lens, cap) ==
    IF Len(patterns) >= cap THEN patterns
    ELSE generate_loop(remaining_length, current_pattern, start_idx,
                       IF SumValues(current_pattern) > 0
                       THEN Append(patterns, current_pattern)
                       ELSE patterns,
                       lens, cap)

\* the for loop of lines 91-100, from position i (1-based here); after is
\* the list when the call of line 96 has returned, and the loop goes on with
\* it (the list never shrinks: the test on Len has the inner call evaluated
\* before the next iteration, as in the code)
generate_loop(remaining_length, current_pattern, i, patterns, lens, cap) ==
    IF i > Len(lens) THEN patterns
    ELSE LET cut_len == lens[i]
             after == IF cut_len <= remaining_length
                      THEN generate_recursive(remaining_length - cut_len,
                                              AddCut(current_pattern, cut_len), i,
                                              patterns, lens, cap)
                      ELSE patterns
         IN IF Len(after) >= Len(patterns)
            THEN generate_loop(remaining_length, current_pattern, i + 1, after, lens, cap)
            ELSE after

\* the patterns of s whose use is one of keys, by non-increasing use; patterns
\* of equal use keep the order they have in s
RECURSIVE PatternsByUse(_, _)
PatternsByUse(s, keys) ==
    IF keys = {} THEN <<>>
    ELSE LET k == MaxOf(keys)
         IN SelectSeq(s, LAMBDA p : PatternUsed(p) = k) \o PatternsByUse(s, keys \ {k})

\* patterns.sort(key=material used, reverse=True), line 105: stable
SortPatterns(s) == PatternsByUse(s, {PatternUsed(s[n]) : n \in 1..Len(s)})

\* cut_lengths is the key set of cut_requirements (line 216)
_generate_cutting_patterns(cut_lengths, board_length, max_patterns) ==
    SortPatterns(generate_recursive(board_length, EmptyDict, 1, <<>>,
                                    SortedSetDesc(cut_lengths), max_patterns))

----
(* _pack_cuts_into_boards, lines 110-153.  An open board is                 *)
(* [remaining |-> space left, cuts |-> list of cuts].                       *)

\* insertion of a number into a non-increasing list
RECURSIVE InsertCut(_, _)
InsertCut(s, x) ==
    IF s = <<>> THEN <<x>>
    ELSE IF Head(s) >= x THEN <<Head(s)>> \o InsertCut(Tail(s), x)
         ELSE <<x>> \o s

\* sorted(cuts_list, reverse=True), line 128
RECURSIVE SortCutsDesc(_)
SortCutsDesc(s) ==
    IF s = <<>> THEN <<>>
    ELSE InsertCut(SortCutsDesc(Tail(s)), Head(s))

\* BestBoardIdx that takes the first board that the cut fits on
BestBoardIdx_first_fit(open, cut) ==
    LET fits == {i \in 1..Len(open) : open[i].remaining - cut >= 0}
    IN IF fits = {} THEN 0 ELSE MinOf(fits)

\* BestBoardIdx without the test remaining_after >= 0 of line 140
BestBoardIdx_any_board(open, cut) ==
    IF open = <<>> THEN 0
    ELSE MinOf({i \in 1..Len(open) : \A j \in 1..Len(open) : open[i].remaining <= open[j].remaining})

\* the scan of lines 135-142: the first board with the smallest
\* non-negative remaining space after the cut, 0 when none fits
BestBoardIdx(open, cut) ==
    LET fits == {i \in 1..Len(open) : open[i].remaining - cut >= 0}
    IN IF fits = {} THEN 0
       ELSE MinOf({i \in fits :
                     \A j \in fits : open[i].remaining <= open[j].remaining})

\* PlaceCut that opens a new board for every cut
PlaceCut_always_new(open, cut, board_length) ==
    Append(open, [remaining |-> board_length - cut, cuts |-> <<cut>>])

\* one iteration of the loop of line 133
PlaceCut(open, cut, board_length) ==
    LET best == BestBoardIdx(open, cut)
    IN IF best > 0
       THEN [open EXCEPT ![best] = [remaining |-> @.remaining - cut,
                                    cuts |-> Append(@.cuts, cut)]]
       ELSE Append(open, [remaining |-> board_length - cut, cuts |-> <<cut>>])

RECURSIVE PackLoop(_, _, _)
PackLoop(open, sorted_cuts, board_length) ==
    IF sorted_cuts = <<>> THEN open
    ELSE PackLoop(PlaceCut(open, Head(sorted_cuts), board_length),
                  Tail(sorted_cuts), board_length)

_pack_cuts_into_boards(cuts_list, board_length) ==
    LET open == PackLoop(<<>>, SortCutsDesc(cuts_list), board_length)
    IN [i \in 1..Len(open) |-> open[i].cuts]

----
(* optimize_boards, lines 156-328: the pure parts                           *)

DimOf(r) == <<r.width, r.height>>

\* keys of cut_groups in insertion order (lines 180-181)
RECURSIVE DimsInOrder(_, _)
DimsInOrder(cs, seen) ==
    IF cs = <<>> THEN <<>>
    ELSE IF DimOf(Head(cs)) \in seen THEN DimsInOrder(Tail(cs), seen)
         ELSE <<DimOf(Head(cs))>> \o DimsInOrder(Tail(cs), seen \cup {DimOf(Head(cs))})

\* GroupCuts by the width alone: cuts of every height join the group
GroupCuts_by_width(cs, dim) == SelectSeq(cs, LAMBDA c : c.width = dim[1])

\* cut_groups[dim] (lines 180-181)
GroupCuts(cs, dim) == SelectSeq(cs, LAMBDA c : DimOf(c) = dim)

\* GroupBoards with the width alone as the key of board_groups
RECURSIVE BoardsOfWidthFrom(_, _, _)
BoardsOfWidthFrom(bs, dim, i) ==
    IF i > Len(bs) THEN <<>>
    ELSE IF bs[i].width = dim[1]
         THEN <<[idx |-> i - 1, board |-> bs[i]]>> \o BoardsOfWidthFrom(bs, dim, i + 1)
         ELSE BoardsOfWidthFrom(bs, dim, i + 1)

GroupBoards_by_width(bs, dim) == BoardsOfWidthFrom(bs, dim, 1)

\* board_groups[dim]: the (idx, board) pairs of lines 183-184, idx 0-based;
\* the empty list stands for "dim not in board_groups"
RECURSIVE BoardsFrom(_, _, _)
BoardsFrom(bs, dim, i) ==
    IF i > Len(bs) THEN <<>>
    ELSE IF DimOf(bs[i]) = dim
         THEN <<[idx |-> i - 1, board |-> bs[i]]>> \o BoardsFrom(bs, dim, i + 1)
         ELSE BoardsFrom(bs, dim, i + 1)

\* GroupBoards with the position inside the group for the position in the
\* boards argument that line 184 stores
GroupBoards_local_idx(bs, dim) ==
    LET mine == SelectSeq(bs, LAMBDA b : DimOf(b) = dim)
    IN [k \in 1..Len(mine) |-> [idx |-> k - 1, board |-> mine[k]]]

GroupBoards(bs, dim) == BoardsFrom(bs, dim, 1)

\* max(b[1]['length'] for b in group_boards), line 201
MaxBoardLength(group_boards) ==
    MaxOf({group_boards[i].board.length : i \in 1..Len(group_boards)})

\* TooLong with >= for the > of line 203
TooLong_or_equal(group_cuts, max_board_length) ==
    SelectSeq(group_cuts, LAMBDA c : c.length >= max_board_length)

\* the cuts that fail the test of line 203, in the order of the loop of line 202
TooLong(group_cuts, max_board_length) ==
    SelectSeq(group_cuts, LAMBDA c : c.length > max_board_length)

\* the loop of lines 210-213 with cut_requirements[cut_len] = cut['quantity']:
\* the last request of a length replaces the earlier ones
RECURSIVE CutRequirements_last_wins(_)
CutRequirements_last_wins(group_cuts) ==
    IF group_cuts = <<>> THEN EmptyDict
    ELSE LET rest == CutRequirements_last_wins(SubSeq(group_cuts, 1, Len(group_cuts) - 1))
             cut == group_cuts[Len(group_cuts)]
         IN Put(rest, cut.length, cut.quantity)

\* the loop of lines 210-213
RECURSIVE CutRequirements(_)
CutRequirements(group_cuts) ==
    IF group_cuts = <<>> THEN EmptyDict
    ELSE LET rest == CutRequirements(SubSeq(group_cuts, 1, Len(group_cuts) - 1))
             cut == group_cuts[Len(group_cuts)]
         IN Put(rest, cut.length, Get(rest, cut.length, 0) + cut.quantity)

\* keys of cut_requirements in insertion order (line 216, line 248)
RECURSIVE LengthsInOrder(_, _)
LengthsInOrder(group_cuts, seen) ==
    IF group_cuts = <<>> THEN <<>>
    ELSE IF Head(group_cuts).length \in seen THEN LengthsInOrder(Tail(group_cuts), seen)
         ELSE <<Head(group_cuts).length>> \o LengthsInOrder(Tail(group_cuts), seen \cup {Head(group_cuts).length})

\* the loop of lines 219-223 without the test of line 222: a board with no
\* pattern gets an entry too
RECURSIVE BoardPatterns_keeps_empty(_, _)
BoardPatterns_keeps_empty(group_boards, requirements) ==
    IF group_boards = <<>> THEN <<>>
    ELSE LET b == Head(group_boards)
             patterns == _generate_cutting_patterns(DOMAIN requirements, b.board.length, MaxPatterns)
         IN <<[board_idx |-> b.idx, board |-> b.board, patterns |-> patterns]>>
            \o BoardPatterns_keeps_empty(Tail(group_boards), requirements)

\* the loop of lines 219-223: only boards with a pattern get an entry
RECURSIVE BoardPatterns(_, _)
BoardPatterns(group_boards, requirements) ==
    IF group_boards = <<>> THEN <<>>
    ELSE LET b == Head(group_boards)
             patterns == _generate_cutting_patterns(DOMAIN requirements, b.board.length, MaxPatterns)
         IN (IF patterns # <<>>
             THEN <<[board_idx |-> b.idx, board |-> b.board, patterns |-> patterns]>>
             ELSE <<>>) \o BoardPatterns(Tail(group_boards), requirements)

\* Python's floor division for a positive divisor
FloorDiv(a, b) == a \div b

\* max_uses, lines 241-244
MaxUses(pattern, requirements) ==
    IF DOMAIN pattern = {} THEN 0
    ELSE MaxOf({FloorDiv(Get(requirements, cut_len, 0) + pattern[cut_len] - 1, pattern[cut_len]) : cut_len \in DOMAIN pattern})

\* PatternVars with the waste of the pattern, not the board's price, as the
\* coefficient of the objective of lines 267-269
RECURSIVE PatternVars_waste_objective(_, _)
PatternVars_waste_objective(bps, requirements) ==
    IF bps = <<>> THEN <<>>
    ELSE LET bp == Head(bps)
         IN [pattern_idx \in 1..Len(bp.patterns) |->
               [board_idx |-> bp.board_idx,
                pattern_idx |-> pattern_idx - 1,
                pattern |-> bp.patterns[pattern_idx],
                lb |-> 0,
                ub |-> MaxUses(bp.patterns[pattern_idx], requirements) * BoundMultiplier,
                price |-> bp.board.length - PatternUsed(bp.patterns[pattern_idx])]]
            \o PatternVars_waste_objective(Tail(bps), requirements)

\* PatternVars with IntVar(0, 1, ...) for the IntVar(0, max_uses * 2, ...) of
\* line 245: a pattern is taken once or not at all
RECURSIVE PatternVars_binary(_, _)
PatternVars_binary(bps, requirements) ==
    IF bps = <<>> THEN <<>>
    ELSE LET bp == Head(bps)
         IN [pattern_idx \in 1..Len(bp.patterns) |->
               [board_idx |-> bp.board_idx,
                pattern_idx |-> pattern_idx - 1,
                pattern |-> bp.patterns[pattern_idx],
                lb |-> 0,
                ub |-> 1,
                price |-> bp.board.price]]
            \o PatternVars_binary(Tail(bps), requirements)

\* the variables of lines 236-245, in creation order: one per (board, pattern)
RECURSIVE PatternVars(_, _)
PatternVars(bps, requirements) ==
    IF bps = <<>> THEN <<>>
    ELSE LET bp == Head(bps)
         IN [pattern_idx \in 1..Len(bp.patterns) |->
               [board_idx |-> bp.board_idx,
                pattern_idx |-> pattern_idx - 1,
                pattern |-> bp.patterns[pattern_idx],
                lb |-> 0,
                ub |-> MaxUses(bp.patterns[pattern_idx], requirements) * BoundMultiplier,
                price |-> bp.board.price]]
            \o PatternVars(Tail(bps), requirements)

\* lengths for which constraint_terms is empty (line 256), in loop order
UncoveredLengths(order, pvars) ==
    SelectSeq(order, LAMBDA cut_len :
        \A k \in 1..Len(pvars) : Get(pvars[k].pattern, cut_len, 0) <= 0)

----
(* The integer program of lines 235-276 and its solver.                     *)
(* A variable is [board_idx, pattern_idx, pattern, lb, ub, price]; an        *)
(* assignment is the list of the variables' values in creation order.       *)

\* what is left of the demand after t boards cut with a pattern
AfterUse(rem, pattern, t) ==
    [cut_len \in DOMAIN rem |-> rem[cut_len] - t * Get(pattern, cut_len, 0)]

\* The pairs <<objective, assignment of variables k..n>> that satisfy the
\* equalities of lines 261-263 for the demand rem within the bounds of line
\* 245, and have the least objective (lines 271-273) among those.  Counts
\* in a pattern are positive, so a value that overshoots rem is infeasible.
RECURSIVE OptimalFrom(_, _, _)
OptimalFrom(pvars, k, rem) ==
    IF k > Len(pvars)
    THEN IF \A cut_len \in DOMAIN rem : rem[cut_len] = 0 THEN {<<0, <<>>>>} ELSE {}
    ELSE LET v == pvars[k]
             ts == {t \in v.lb..v.ub : \A cut_len \in DOMAIN v.pattern : t * v.pattern[cut_len] <= rem[cut_len]}
             cands == UNION {{<<t * v.price + s[1], <<t>> \o s[2]>> : s \in OptimalFrom(pvars, k + 1, AfterUse(rem, v.pattern, t))} : t \in ts}
         IN IF cands = {} THEN {}
            ELSE {c \in cands : \A d \in cands : c[1] <= d[1]}

\* solver.Solve(), line 276: the optimal assignments; empty when infeasible
OptimalSolutions(pvars, requirements) == OptimalFrom(pvars, 1, requirements)

\* The pairs <<objective, assignment of variables k..n>> that satisfy the
\* equalities and the bounds: what a solver that stops early may hold
RECURSIVE FeasibleFrom(_, _, _)
FeasibleFrom(pvars, k, rem) ==
    IF k > Len(pvars)
    THEN IF \A cut_len \in DOMAIN rem : rem[cut_len] = 0 THEN {<<0, <<>>>>} ELSE {}
    ELSE LET v == pvars[k]
             ts == {t \in v.lb..v.ub : \A cut_len \in DOMAIN v.pattern : t * v.pattern[cut_len] <= rem[cut_len]}
         IN UNION {{<<t * v.price + s[1], <<t>> \o s[2]>> : s \in FeasibleFrom(pvars, k + 1, AfterUse(rem, v.pattern, t))} : t \in ts}

FeasibleSolutions(pvars, requirements) == FeasibleFrom(pvars, 1, requirements)

\* pywraplp.Solver result statuses
Statuses == {"OPTIMAL", "FEASIBLE", "INFEASIBLE", "UNBOUNDED", "ABNORMAL", "MODEL_INVALID", "NOT_SOLVED"}

\* the statuses that line 277 lets pass
SuccessStatuses == {"OPTIMAL", "FEASIBLE"}

\* What solver.Solve() can come back with for the model built: OPTIMAL with
\* an optimal assignment, FEASIBLE with any assignment that satisfies the
\* constraints, INFEASIBLE when there is none, or one of the statuses by
\* which the solver reports that it broke down.
SolverAnswersFor(pvars, requirements) ==
    {[status |-> "OPTIMAL", objective |-> s[1], values |-> s[2]] : s \in OptimalSolutions(pvars, requirements)}
    \cup {[status |-> "FEASIBLE", objective |-> s[1], values |-> s[2]] : s \in FeasibleSolutions(pvars, requirements)}
    \cup (IF FeasibleSolutions(pvars, requirements) = {} THEN {[status |-> "INFEASIBLE", objective |-> 0, values |-> <<>>]} ELSE {})
    \cup {[status |-> st, objective |-> 0, values |-> <<>>] : st \in Statuses \ (SuccessStatuses \cup {"INFEASIBLE"})}

----
(* Extraction and aggregation, lines 283-321                                *)

\* CutsForBoardType with [cut_len] * count for the [cut_len] * (count * times_used) of line 298
RECURSIVE CutsForBoardType_once(_, _, _, _)
CutsForBoardType_once(pvars, sol, board_idx, k) ==
    IF k > Len(pvars) THEN <<>>
    ELSE LET v == pvars[k]
             keys == SortedSetDesc(DOMAIN v.pattern)
             ext == [i \in 1..Len(keys) |-> Repeat(keys[i], v.pattern[keys[i]])]
             RECURSIVE Flat(_)
             Flat(j) == IF j > Len(ext) THEN <<>> ELSE ext[j] \o Flat(j + 1)
         IN (IF v.board_idx = board_idx /\ sol[k] > 0 THEN Flat(1) ELSE <<>>)
            \o CutsForBoardType_once(pvars, sol, board_idx, k + 1)

\* cuts_for_this_board_type, lines 287-298, for variables k..n
RECURSIVE CutsForBoardType(_, _, _, _)
CutsForBoardType(pvars, sol, board_idx, k) ==
    IF k > Len(pvars) THEN <<>>
    ELSE LET v == pvars[k]
             times_used == sol[k]
             keys == SortedSetDesc(DOMAIN v.pattern)
             ext == [i \in 1..Len(keys) |-> Repeat(keys[i], v.pattern[keys[i]] * times_used)]
             RECURSIVE Flat(_)
             Flat(j) == IF j > Len(ext) THEN <<>> ELSE ext[j] \o Flat(j + 1)
         IN (IF v.board_idx = board_idx /\ times_used > 0 THEN Flat(1) ELSE <<>>)
            \o CutsForBoardType(pvars, sol, board_idx, k + 1)

\* TotalWaste that counts the waste of the first packed board only
TotalWaste_first_board(packed_boards, board_length) ==
    IF packed_boards = <<>> THEN 0
    ELSE board_length - SumSeq(Head(packed_boards))

\* sum(board_length - sum(cuts) for cuts in packed_boards), line 317
RECURSIVE TotalWaste(_, _)
TotalWaste(packed_boards, board_length) ==
    IF packed_boards = <<>> THEN 0
    ELSE board_length - SumSeq(Head(packed_boards)) + TotalWaste(Tail(packed_boards), board_length)

\* the accumulators of lines 186-189
Totals(bp, cp, cost, waste) == [board_plan |-> bp, cut_plan |-> cp, total_cost |-> cost, waste_summary |-> waste]

\* the number of boards of a type in the solver's assignment
RECURSIVE TimesUsed(_, _, _)
TimesUsed(pvars, sol, board_idx) ==
    IF pvars = <<>> THEN 0
    ELSE (IF Head(pvars).board_idx = board_idx THEN Head(sol) ELSE 0) + TimesUsed(Tail(pvars), Tail(sol), board_idx)

\* ExtractBoard with the solver's count of boards, not len(packed_boards), in the cost of line 321
ExtractBoard_solver_count(acc, bp, pvars, sol) ==
    LET cuts_for_this_board_type == CutsForBoardType(pvars, sol, bp.board_idx, 1)
        board_length == bp.board.length
        packed_boards == _pack_cuts_into_boards(cuts_for_this_board_type, board_length)
        boards_used == Len(packed_boards)
    IN IF cuts_for_this_board_type = <<>> THEN acc
       ELSE Totals(Put(acc.board_plan, bp.board_idx, Get(acc.board_plan, bp.board_idx, 0) + boards_used),
                   Put(acc.cut_plan, bp.board_idx, Get(acc.cut_plan, bp.board_idx, <<>>) \o packed_boards),
                   acc.total_cost + TimesUsed(pvars, sol, bp.board_idx) * bp.board.price,
                   Put(acc.waste_summary, bp.board_idx, Get(acc.waste_summary, bp.board_idx, 0) + TotalWaste(packed_boards, board_length)))

\* ExtractBoard that reports the solver's number of boards of the type, not len(packed_boards)
ExtractBoard_solver_boards(acc, bp, pvars, sol) ==
    LET cuts_for_this_board_type == CutsForBoardType(pvars, sol, bp.board_idx, 1)
        board_length == bp.board.length
        packed_boards == _pack_cuts_into_boards(cuts_for_this_board_type, board_length)
        boards_used == TimesUsed(pvars, sol, bp.board_idx)
    IN IF cuts_for_this_board_type = <<>> THEN acc
       ELSE Totals(Put(acc.board_plan, bp.board_idx, Get(acc.board_plan, bp.board_idx, 0) + boards_used),
                   Put(acc.cut_plan, bp.board_idx, Get(acc.cut_plan, bp.board_idx, <<>>) \o packed_boards),
                   acc.total_cost + boards_used * bp.board.price,
                   Put(acc.waste_summary, bp.board_idx, Get(acc.waste_summary, bp.board_idx, 0) + TotalWaste(packed_boards, board_length)))

\* ExtractBoard without the test of line 300: a board type that got no cut is recorded too
ExtractBoard_unguarded(acc, bp, pvars, sol) ==
    LET cuts_for_this_board_type == CutsForBoardType(pvars, sol, bp.board_idx, 1)
        board_length == bp.board.length
        packed_boards == _pack_cuts_into_boards(cuts_for_this_board_type, board_length)
        boards_used == Len(packed_boards)
    IN Totals(Put(acc.board_plan, bp.board_idx, Get(acc.board_plan, bp.board_idx, 0) + boards_used),
              Put(acc.cut_plan, bp.board_idx, Get(acc.cut_plan, bp.board_idx, <<>>) \o packed_boards),
              acc.total_cost + boards_used * bp.board.price,
              Put(acc.waste_summary, bp.board_idx, Get(acc.waste_summary, bp.board_idx, 0) + TotalWaste(packed_boards, board_length)))

\* the body of the loop of line 283 for one board type, lines 284-321
ExtractBoard(acc, bp, pvars, sol) ==
    LET cuts_for_this_board_type == CutsForBoardType(pvars, sol, bp.board_idx, 1)
        board_length == bp.board.length
        packed_boards == _pack_cuts_into_boards(cuts_for_this_board_type, board_length)
        boards_used == Len(packed_boards)
    IN IF cuts_for_this_board_type = <<>> THEN acc
       ELSE Totals(Put(acc.board_plan, bp.board_idx, Get(acc.board_plan, bp.board_idx, 0) + boards_used),
                   Put(acc.cut_plan, bp.board_idx, Get(acc.cut_plan, bp.board_idx, <<>>) \o packed_boards),
                   acc.total_cost + boards_used * bp.board.price,
                   Put(acc.waste_summary, bp.board_idx, Get(acc.waste_summary, bp.board_idx, 0) + TotalWaste(packed_boards, board_length)))

\* the loop of line 283 over board_patterns
RECURSIVE ExtractAll(_, _, _, _)
ExtractAll(acc, bps, pvars, sol) ==
    IF bps = <<>> THEN acc
    ELSE ExtractAll(ExtractBoard(acc, Head(bps), pvars, sol), Tail(bps), pvars, sol)

----
(* The inputs of the model                                                  *)

\* a quantity of 0 or less is an input the engine is documented to reject
Quantities(maxq) == -1..maxq

Cut(h, l, q) == [width |-> 2, height |-> h, length |-> l, quantity |-> q]

\* cuts of 2x4 in two lengths, cuts of 2x6 in a length that 2x4 has too
CutDicts(maxq) == {Cut(4, 3, q) : q \in Quantities(maxq)} \cup {Cut(4, 4, q) : q \in Quantities(maxq)} \cup {Cut(6, 3, q) : q \in Quantities(maxq)}

Board(h, l, p) == [width |-> 2, height |-> h, length |-> l, price |-> p]

\* the board lists of the model: a board shorter than a cut, two lengths of
\* a cross-section, two equal offerings, an offering too short for one of
\* the cuts, two cross-sections interleaved
BoardLists ==
    { <<Board(4, 3, 2)>>,
      <<Board(4, 5, 5), Board(4, 10, 9)>>,
      <<Board(4, 5, 5), Board(4, 5, 5)>>,
      <<Board(4, 3, 2), Board(4, 5, 5)>>,
      <<Board(4, 5, 5), Board(6, 10, 9), Board(4, 10, 9)>> }

ListsUpTo(S, n) == UNION {[1..k -> S] : k \in 0..n}

RECURSIVE TotalQuantity(_)
TotalQuantity(cs) == IF cs = <<>> THEN 0 ELSE Head(cs).quantity + TotalQuantity(Tail(cs))

\* at most MaxCuts requests of at most MaxQty pieces, MaxPieces pieces in all
CutLists == {cs \in ListsUpTo(CutDicts(MaxQty), MaxCuts) : TotalQuantity(cs) <= MaxPieces}

\* no helper is called directly
NoUnit ==
    /\ fn_pc = "idle"
    /\ fn_cuts_list = <<>>
    /\ fn_cut_lengths = <<>>
    /\ fn_board_length = 0
    /\ fn_max_patterns = 0
    /\ fn_sorted_cuts = <<>>
    /\ open_boards = <<>>
    /\ returned = <<>>

\* the values of the variables that a call has not set yet
Fresh == /\ cut_groups = <<>>
         /\ gi = 0
         /\ cut_requirements = EmptyDict
         /\ board_patterns = <<>>
         /\ pattern_vars = <<>>
         /\ solution = <<>>
         /\ solver_log = <<>>
         /\ total_board_plan = EmptyDict
         /\ total_cut_plan = EmptyDict
         /\ total_cost = 0
         /\ waste_summary = EmptyDict
         /\ result = <<>>
         /\ error = <<>>

\* the documented scenario of a long cheap board against short dear ones:
\* pieces of 7 from boards of 8 at 10 and of 20 at 15
ScenarioInputs == {[cuts |-> <<Cut(4, 7, q)>>, boards |-> <<Board(4, 8, 10), Board(4, 20, 15)>>] : q \in 1..MaxQty}

\* twelve pieces and a board of 397: beside the piece of 201 there is room
\* for up to four of the pieces of 40 to 49 and not for the piece of 200, so
\* MaxPatterns patterns begin with 201
CapInputs == {[cuts |-> <<Cut(4, 201, 1), Cut(4, 200, 1)>> \o [n \in 1..10 |-> Cut(4, 39 + n, 1)], boards |-> <<Board(4, 397, 5)>>]}

\* the arguments of the calls of the model
Inputs == {[cuts |-> cs, boards |-> bs] : cs \in CutLists, bs \in BoardLists} \cup ScenarioInputs \cup CapInputs

Init ==
    /\ \E inp \in Inputs : cuts = inp.cuts /\ boards = inp.boards
    /\ pc = "call"
    /\ last = <<>>
    /\ Fresh
    /\ NoUnit

----
(* The steps of optimize_boards                                             *)

\* Raise that hands back what the groups before have added to the plans
Raise_partial(kind, args) ==
    /\ pc' = "failed"
    /\ error' = <<[kind |-> kind, args |-> args]>>
    /\ result' = <<Totals(total_board_plan, total_cut_plan, total_cost, waste_summary)>>

\* raise RuntimeError(...): the call ends, nothing is returned
Raise(kind, args) ==
    /\ pc' = "failed"
    /\ error' = <<[kind |-> kind, args |-> args]>>
    /\ result' = <<>>

\* Partition that takes the requests out of the cuts argument as it groups
\* them (cuts.pop(0) for the loop of line 177)
Partition_consumes_cuts ==
    /\ pc = "call"
    /\ cut_groups' = DimsInOrder(cuts, {})
    /\ cuts' = <<>>
    /\ gi' = 1
    /\ total_board_plan' = EmptyDict
    /\ total_cut_plan' = EmptyDict
    /\ total_cost' = 0
    /\ waste_summary' = EmptyDict
    /\ cut_requirements' = EmptyDict
    /\ board_patterns' = <<>>
    /\ pattern_vars' = <<>>
    /\ solution' = <<>>
    /\ solver_log' = <<>>
    /\ pc' = "group"
    /\ UNCHANGED <<units, boards, result, error, last>>

\* Partition without lines 186-189: the plans and the cost live on between calls
Partition_keeps_totals ==
    /\ pc = "call"
    /\ cut_groups' = DimsInOrder(cuts, {})
    /\ gi' = 1
    /\ cut_requirements' = EmptyDict
    /\ board_patterns' = <<>>
    /\ pattern_vars' = <<>>
    /\ solution' = <<>>
    /\ solver_log' = <<>>
    /\ pc' = "group"
    /\ UNCHANGED <<units, cuts, boards, result, error, last, total_board_plan, total_cut_plan, total_cost, waste_summary>>

\* lines 176-189: the frame of the call starts with its own locals
Partition ==
    /\ pc = "call"
    /\ cut_groups' = DimsInOrder(cuts, {})
    /\ gi' = 1
    /\ total_board_plan' = EmptyDict
    /\ total_cut_plan' = EmptyDict
    /\ total_cost' = 0
    /\ waste_summary' = EmptyDict
    /\ cut_requirements' = EmptyDict
    /\ board_patterns' = <<>>
    /\ pattern_vars' = <<>>
    /\ solution' = <<>>
    /\ solver_log' = <<>>
    /\ pc' = "group"
    /\ UNCHANGED <<units, cuts, boards, result, error, last>>

\* lines 192-216 for the group at gi
ValidateGroup ==
    /\ pc = "group"
    /\ gi <= Len(cut_groups)
    /\ LET dim == cut_groups[gi]
           group_cuts == GroupCuts(cuts, dim)
           group_boards == GroupBoards(boards, dim)
           too_long == TooLong(group_cuts, MaxBoardLength(group_boards))
       IN IF group_boards = <<>>
          THEN /\ Raise("NoBoardsForDimension", <<dim[1], dim[2]>>)
               /\ UNCHANGED cut_requirements
          ELSE IF too_long # <<>>
          THEN /\ Raise("CutExceedsMaxBoard", <<too_long[1].length, MaxBoardLength(group_boards), dim[1], dim[2]>>)
               /\ UNCHANGED cut_requirements
          ELSE /\ cut_requirements' = CutRequirements(group_cuts)
               /\ pc' = "patterns"
               /\ UNCHANGED <<result, error>>
    /\ UNCHANGED <<units, cuts, boards, cut_groups, gi, board_patterns, pattern_vars, solution, solver_log, total_board_plan, total_cut_plan, total_cost, waste_summary, last>>

\* lines 218-228
GeneratePatterns ==
    /\ pc = "patterns"
    /\ LET dim == cut_groups[gi]
           bps == BoardPatterns(GroupBoards(boards, dim), cut_requirements)
       IN IF bps = <<>>
          THEN /\ Raise("NoValidPatterns", <<dim[1], dim[2]>>)
               /\ UNCHANGED board_patterns
          ELSE /\ board_patterns' = bps
               /\ pc' = "model"
               /\ UNCHANGED <<result, error>>
    /\ UNCHANGED <<units, cuts, boards, cut_groups, gi, cut_requirements, pattern_vars, solution, solver_log, total_board_plan, total_cut_plan, total_cost, waste_summary, last>>

\* lines 230-273
BuildModel ==
    /\ pc = "model"
    /\ LET dim == cut_groups[gi]
           pvars == PatternVars(board_patterns, cut_requirements)
           uncovered == UncoveredLengths(LengthsInOrder(GroupCuts(cuts, dim), {}), pvars)
       IN IF uncovered # <<>>
          THEN /\ Raise("NoPatternForLength", <<uncovered[1], dim[1], dim[2]>>)
               /\ UNCHANGED pattern_vars
          ELSE /\ pattern_vars' = pvars
               /\ pc' = "solve"
               /\ UNCHANGED <<result, error>>
    /\ UNCHANGED <<units, cuts, boards, cut_groups, gi, cut_requirements, board_patterns, solution, solver_log, total_board_plan, total_cut_plan, total_cost, waste_summary, last>>

\* lines 275-280: the solver answers with one of the optimal assignments,
\* or with a status that is neither OPTIMAL nor FEASIBLE when there is none
Solve ==
    /\ pc = "solve"
    /\ LET dim == cut_groups[gi]
           optimal == OptimalSolutions(pattern_vars, cut_requirements)
       IN IF optimal = {}
          THEN /\ Raise("NoFeasiblePlan", <<dim[1], dim[2]>>)
               /\ solver_log' = Append(solver_log, [status |-> "INFEASIBLE", objective |-> 0, values |-> <<>>])
               /\ UNCHANGED solution
          ELSE \E s \in optimal :
                 /\ solution' = s[2]
                 /\ solver_log' = Append(solver_log, [status |-> "OPTIMAL", objective |-> s[1], values |-> s[2]])
                 /\ pc' = "extract"
                 /\ UNCHANGED <<result, error>>
    /\ UNCHANGED <<units, cuts, boards, cut_groups, gi, cut_requirements, board_patterns, pattern_vars, total_board_plan, total_cut_plan, total_cost, waste_summary, last>>

\* lines 282-321, then the next group
ExtractAndPack ==
    /\ pc = "extract"
    /\ LET acc == ExtractAll(Totals(total_board_plan, total_cut_plan, total_cost, waste_summary), board_patterns, pattern_vars, solution)
       IN /\ total_board_plan' = acc.board_plan
          /\ total_cut_plan' = acc.cut_plan
          /\ total_cost' = acc.total_cost
          /\ waste_summary' = acc.waste_summary
    /\ gi' = gi + 1
    /\ pc' = "group"
    /\ UNCHANGED <<units, cuts, boards, cut_groups, cut_requirements, board_patterns, pattern_vars, solution, solver_log, result, error, last>>

\* lines 323-328
Return ==
    /\ pc = "group"
    /\ gi > Len(cut_groups)
    /\ result' = <<Totals(total_board_plan, total_cut_plan, total_cost, waste_summary)>>
    /\ pc' = "done"
    /\ UNCHANGED <<units, cuts, boards, cut_groups, gi, cut_requirements, board_patterns, pattern_vars, solution, solver_log, total_board_plan, total_cut_plan, total_cost, waste_summary, error, last>>

Step == \/ Partition
        \/ ValidateGroup
        \/ GeneratePatterns
        \/ BuildModel
        \/ Solve
        \/ ExtractAndPack
        \/ Return

Next == Step

Spec == Init /\ [][Next]_vars

----
(* Repeated calls.  optimize_boards keeps nothing between calls: the next   *)
(* call starts from its arguments alone.  last is an observer's note of one *)
(* earlier finished call, kept or replaced when the next call starts.       *)

\* between: another call has finished since the noted one
Finished == [cuts |-> cuts, boards |-> boards, solver_log |-> solver_log, result |-> result, error |-> error, between |-> FALSE]

Kept == IF last = <<>> THEN <<>> ELSE <<[last[1] EXCEPT !.between = TRUE]>>

\* the cut lists of the repeated calls: 2x4 in both lengths, valid
\* quantities, the quantity of one request growing
CallCutLists == {<<Cut(4, 3, q), Cut(4, 4, 3)>> : q \in 1..MaxCallQty}

CallBoardLists ==
    { <<Board(4, 5, 5), Board(4, 10, 9)>>,
      <<Board(4, 5, 5), Board(4, 5, 5)>> }

InitCalls ==
    /\ cuts \in CallCutLists
    /\ boards \in CallBoardLists
    /\ pc = "call"
    /\ last = <<>>
    /\ Fresh
    /\ NoUnit

\* the route takes the next request and calls optimize_boards (line 29);
\* a request whose cuts or boards are empty is answered with 400 at
\* lines 25-26 and changes nothing
Call ==
    /\ pc \in {"done", "failed"}
    /\ cuts' \in CallCutLists
    /\ boards' \in CallBoardLists
    /\ cuts' # <<>>
    /\ boards' # <<>>
    /\ last' \in {Kept, <<Finished>>}
    /\ pc' = "call"
    /\ result' = <<>>
    /\ error' = <<>>
    /\ UNCHANGED <<units, cut_groups, gi, cut_requirements, board_patterns, pattern_vars, solution, solver_log, total_board_plan, total_cut_plan, total_cost, waste_summary>>

NextCalls == Step \/ Call

SpecCalls == InitCalls /\ [][NextCalls]_vars

----
(* Repeated calls with the requests of a length split and joined            *)

MaxSplit == 3
MaxSplitQty == 4

\* requests of 2x4 for pieces of 3 and of 4, a length in up to MaxSplit
\* requests, in every order
SplitCutLists == {cs \in ListsUpTo({Cut(4, 3, 1), Cut(4, 3, 2), Cut(4, 4, 1)}, MaxSplit) : TotalQuantity(cs) <= MaxSplitQty}

SplitBoardLists == {<<Board(4, 5, 5), Board(4, 10, 9)>>}

InitSplit ==
    /\ cuts \in SplitCutLists
    /\ boards \in SplitBoardLists
    /\ pc = "call"
    /\ last = <<>>
    /\ Fresh
    /\ NoUnit

\* the route takes the next request, with the requests split otherwise, and
\* calls optimize_boards (line 29).  A request whose cuts or boards are
\* empty is answered with 400 at lines 25-26: optimize_boards is not called
\* and nothing of the state changes.
CallSplit ==
    /\ pc \in {"done", "failed"}
    /\ cuts' \in SplitCutLists
    /\ boards' \in SplitBoardLists
    /\ cuts' # <<>>
    /\ boards' # <<>>
    /\ last' = <<Finished>>
    /\ pc' = "call"
    /\ result' = <<>>
    /\ error' = <<>>
    /\ UNCHANGED <<units, cut_groups, gi, cut_requirements, board_patterns, pattern_vars, solution, solver_log, total_board_plan, total_cut_plan, total_cost, waste_summary>>

NextSplit == Step \/ CallSplit

SpecSplit == InitSplit /\ [][NextSplit]_vars

----
(* The call with the solver as it is found in the field: it may be absent   *)
(* from the build, answer with any status, or not answer at all.            *)

MaxSolverQty == 2

\* requests of a negative quantity, which the code takes as they are: the
\* equalities of lines 261-263 then have no solution
SolverInfeasibleCutLists == {<<Cut(4, 3, -1)>>, <<Cut(4, 3, -1), Cut(4, 3, -1)>>, <<Cut(4, 3, 1), Cut(6, 3, -1)>>}

\* valid requests of both cross-sections, and the requests without solution
SolverCutLists == ListsUpTo({Cut(4, 3, q) : q \in 1..MaxSolverQty} \cup {Cut(4, 4, q) : q \in 1..MaxSolverQty} \cup {Cut(6, 3, q) : q \in 1..MaxSolverQty}, MaxCuts) \cup SolverInfeasibleCutLists

\* two lengths of 2x4; 2x4 and 2x6 interleaved
SolverBoardLists ==
    { <<Board(4, 5, 5), Board(4, 10, 9)>>,
      <<Board(4, 5, 5), Board(6, 5, 4), Board(4, 3, 2)>> }

InitSolver ==
    /\ cuts \in SolverCutLists
    /\ boards \in SolverBoardLists
    /\ pc = "call"
    /\ last = <<>>
    /\ Fresh
    /\ NoUnit

\* lines 231-233: CreateSolver('SCIP') returns None
CreateSolverFails ==
    /\ pc = "model"
    /\ Raise("CouldNotCreateSolver", <<>>)
    /\ solver_log' = Append(solver_log, [status |-> "UNAVAILABLE", objective |-> 0, values |-> <<>>])
    /\ UNCHANGED <<units, cuts, boards, cut_groups, gi, cut_requirements, board_patterns, pattern_vars, solution, total_board_plan, total_cut_plan, total_cost, waste_summary, last>>

\* lines 275-280 with every answer the solver can give
SolverAnswers ==
    /\ pc = "solve"
    /\ \E answer \in SolverAnswersFor(pattern_vars, cut_requirements) :
         /\ solver_log' = Append(solver_log, answer)
         /\ IF answer.status \notin SuccessStatuses
            THEN /\ Raise("NoFeasiblePlan", <<cut_groups[gi][1], cut_groups[gi][2]>>)
                 /\ UNCHANGED solution
            ELSE /\ solution' = answer.values
                 /\ pc' = "extract"
                 /\ UNCHANGED <<result, error>>
    /\ UNCHANGED <<units, cuts, boards, cut_groups, gi, cut_requirements, board_patterns, pattern_vars, total_board_plan, total_cut_plan, total_cost, waste_summary, last>>

NextSolver ==
    \/ Partition
    \/ ValidateGroup
    \/ GeneratePatterns
    \/ CreateSolverFails
    \/ BuildModel
    \/ SolverAnswers
    \/ ExtractAndPack
    \/ Return

\* A step of the code itself: the call is at a position other than line 276
\* (blocked in solver.Solve()) and has not ended, and it moves on.  Every
\* step of the code leaves its position.
CodeMoves ==
    /\ pc \in {"call", "group", "patterns", "model", "extract"}
    /\ pc' \in {"group", "patterns", "model", "solve", "extract", "done", "failed"} \ {pc}

\* The steps of the code are taken when they can be.  Line 276 blocks until
\* the solver returns and sets no time limit, so nothing makes the solver's
\* answer come.
SpecSolver == InitSolver /\ [][NextSolver]_vars /\ WF_pc(CodeMoves)

----
(* Direct calls of the two helpers, _pack_cuts_into_boards step by step     *)

MaxBag == 4
MaxLens == 3

\* bags with ties between open boards ([7, 7, 3] on 10) and with a tightest
\* board that is not the first that fits ([8, 5, 5, 2] on 12); the caller
\* passes only lengths of patterns of the board, so no cut is longer than it
PackLengths == {2, 3, 5, 7, 8}

PackBoardLengths == {10, 12}

\* the cap of line 63 and a cap that small inputs reach
GenLengths == {2, 3, 4, 7}

GenBoardLengths == {5, 7, 10}

GenCaps == {3, MaxPatterns}

InitUnits ==
    /\ cuts = <<>>
    /\ boards = <<>>
    /\ pc = "idle"
    /\ last = <<>>
    /\ Fresh
    /\ \/ /\ fn_pc = "pack"
          /\ fn_cuts_list \in ListsUpTo(PackLengths, MaxBag)
          /\ fn_board_length \in PackBoardLengths
          /\ fn_cut_lengths = <<>>
          /\ fn_max_patterns = 0
       \/ /\ fn_pc = "generate"
          /\ fn_cut_lengths \in ListsUpTo(GenLengths, MaxLens)
          /\ fn_board_length \in GenBoardLengths
          /\ fn_max_patterns \in GenCaps
          /\ fn_cuts_list = <<>>
    /\ fn_sorted_cuts = <<>>
    /\ open_boards = <<>>
    /\ returned = <<>>

\* lines 124-131: return [] for an empty bag, else sort and start with no board
PackStart ==
    /\ fn_pc = "pack"
    /\ IF fn_cuts_list = <<>>
       THEN /\ returned' = <<<<>>>>
            /\ fn_pc' = "packed"
            /\ UNCHANGED fn_sorted_cuts
       ELSE /\ fn_sorted_cuts' = SortCutsDesc(fn_cuts_list)
            /\ fn_pc' = "place"
            /\ UNCHANGED returned
    /\ open_boards' = <<>>
    /\ UNCHANGED <<call_vars, fn_cuts_list, fn_cut_lengths, fn_board_length, fn_max_patterns>>

\* one iteration of the loop of lines 133-150
PackCut ==
    /\ fn_pc = "place"
    /\ fn_sorted_cuts # <<>>
    /\ open_boards' = PlaceCut(open_boards, Head(fn_sorted_cuts), fn_board_length)
    /\ fn_sorted_cuts' = Tail(fn_sorted_cuts)
    /\ UNCHANGED <<call_vars, fn_pc, fn_cuts_list, fn_cut_lengths, fn_board_length, fn_max_patterns, returned>>

\* line 153
PackReturn ==
    /\ fn_pc = "place"
    /\ fn_sorted_cuts = <<>>
    /\ returned' = <<[i \in 1..Len(open_boards) |-> open_boards[i].cuts]>>
    /\ fn_pc' = "packed"
    /\ UNCHANGED <<call_vars, fn_cuts_list, fn_cut_lengths, fn_board_length, fn_max_patterns, fn_sorted_cuts, open_boards>>

\* a call of _generate_cutting_patterns, lines 63-107; set(cut_lengths) of
\* line 79 is taken here
Generate ==
    /\ fn_pc = "generate"
    /\ returned' = <<_generate_cutting_patterns({fn_cut_lengths[i] : i \in 1..Len(fn_cut_lengths)}, fn_board_length, fn_max_patterns)>>
    /\ fn_pc' = "generated"
    /\ UNCHANGED <<call_vars, fn_cuts_list, fn_cut_lengths, fn_board_length, fn_max_patterns, fn_sorted_cuts, open_boards>>

NextUnits == PackStart \/ PackCut \/ PackReturn \/ Generate

SpecUnits == InitUnits /\ [][NextUnits]_vars

----
(* What the claims speak of, read off the arguments and the returned dict   *)

Returned == pc = "done"

Failed == pc = "failed"

Ended == pc \in {"done", "failed"}

\* the boards of the argument that have the cross-section dim
OfferedFor(bs, dim) == {j \in 1..Len(bs) : DimOf(bs[j]) = dim}

LongestFor(bs, dim) == MaxOf({bs[j].length : j \in OfferedFor(bs, dim)})

\* all lengths > 0, quantities positive, every cut's cross-section has a
\* board, every cut is at most the longest board of its cross-section
ValidInput(cs, bs) ==
    /\ \A i \in 1..Len(cs) :
         /\ cs[i].length > 0
         /\ cs[i].quantity > 0
         /\ OfferedFor(bs, DimOf(cs[i])) # {}
         /\ cs[i].length <= LongestFor(bs, DimOf(cs[i]))
    /\ \A j \in 1..Len(bs) : bs[j].length > 0 /\ bs[j].price > 0

\* number of pieces of length l that the cuts ask for
RECURSIVE Demand(_, _)
Demand(cs, l) ==
    IF cs = <<>> THEN 0
    ELSE (IF Head(cs).length = l THEN Head(cs).quantity ELSE 0) + Demand(Tail(cs), l)

\* number of occurrences of l in a list of cuts
RECURSIVE Occurrences(_, _)
Occurrences(cut_list, l) ==
    IF cut_list = <<>> THEN 0
    ELSE (IF Head(cut_list) = l THEN 1 ELSE 0) + Occurrences(Tail(cut_list), l)

\* all physical boards of a cut plan as <<board index, position>> pairs
PhysicalBoards(cut_plan) == UNION {{<<i, n>> : n \in 1..Len(cut_plan[i])} : i \in DOMAIN cut_plan}

RECURSIVE SumOccurrences(_, _, _)
SumOccurrences(cut_plan, pbs, l) ==
    IF pbs = {} THEN 0
    ELSE LET pb == CHOOSE x \in pbs : TRUE
         IN Occurrences(cut_plan[pb[1]][pb[2]], l) + SumOccurrences(cut_plan, pbs \ {pb}, l)

\* number of pieces of length l over all physical boards of the cut plan
Produced(cut_plan, l) == SumOccurrences(cut_plan, PhysicalBoards(cut_plan), l)

PlanLengths(cut_plan) == UNION {{cut_plan[pb[1]][pb[2]][n] : n \in 1..Len(cut_plan[pb[1]][pb[2]])} : pb \in PhysicalBoards(cut_plan)}

CutLengthsOf(cs) == {cs[i].length : i \in 1..Len(cs)}

\* sum over board_plan of quantity times the price of that input board
RECURSIVE PlanCost(_, _)
PlanCost(board_plan, bs) ==
    IF DOMAIN board_plan = {} THEN 0
    ELSE LET i == CHOOSE x \in DOMAIN board_plan : TRUE
         IN board_plan[i] * bs[i + 1].price + PlanCost(Del(board_plan, i), bs)

----
(* The least cost of a purchase with a physical layout, by exhaustion:      *)
(* the board that carries one of the longest pieces still to place is of    *)
(* some offered type and carries some part of what is left that fits it.    *)

RECURSIVE LengthOfPieces(_)
LengthOfPieces(m) ==
    IF DOMAIN m = {} THEN 0
    ELSE LET l == CHOOSE x \in DOMAIN m : TRUE
         IN l * m[l] + LengthOfPieces(Del(m, l))

\* the ways to fill one board of length cap from the pieces rem, the longest piece among them
FillsOfOneBoard(rem, cap) ==
    LET longest == MaxOf({l \in DOMAIN rem : rem[l] > 0})
    IN {m \in [DOMAIN rem -> 0..MaxOf({rem[l] : l \in DOMAIN rem})] :
          /\ m[longest] >= 1
          /\ \A l \in DOMAIN rem : m[l] <= rem[l]
          /\ LengthOfPieces(m) <= cap}

\* offers: the set of [length, price] of one cross-section
RECURSIVE MinLayoutCost(_, _)
MinLayoutCost(rem, offers) ==
    IF \A l \in DOMAIN rem : rem[l] = 0 THEN 0
    ELSE MinOf(UNION {{o.price + MinLayoutCost([l \in DOMAIN rem |-> rem[l] - m[l]], offers) : m \in FillsOfOneBoard(rem, o.length)} : o \in offers})

DemandOfDim(cs, dim) ==
    LET mine == SelectSeq(cs, LAMBDA c : DimOf(c) = dim)
    IN [l \in CutLengthsOf(mine) |-> Demand(mine, l)]

OffersOfDim(bs, dim) == {[length |-> bs[j].length, price |-> bs[j].price] : j \in OfferedFor(bs, dim)}

RECURSIVE SumMinLayoutCost(_, _, _)
SumMinLayoutCost(cs, bs, dims) ==
    IF dims = {} THEN 0
    ELSE LET dim == CHOOSE d \in dims : TRUE
         IN MinLayoutCost(DemandOfDim(cs, dim), OffersOfDim(bs, dim)) + SumMinLayoutCost(cs, bs, dims \ {dim})

\* cross-sections do not share boards, so the least cost is the sum over them
MinRealizableCost(cs, bs) == SumMinLayoutCost(cs, bs, {DimOf(cs[i]) : i \in 1..Len(cs)})

----
(* C1: for a valid input that returns, the cut plan holds for every length  *)
(* exactly as many pieces as the cuts ask for, and no other length.         *)
C1_ExactDemand ==
    (Returned /\ ValidInput(cuts, boards)) =>
        \A l \in CutLengthsOf(cuts) \cup PlanLengths(result[1].cut_plan) :
            Produced(result[1].cut_plan, l) = Demand(cuts, l)

\* two requests are served from more than one board type
C1_Witness ==
    /\ Returned
    /\ ValidInput(cuts, boards)
    /\ Len(cuts) = 2
    /\ Cardinality(DOMAIN result[1].cut_plan) >= 2
    /\ \E l \in CutLengthsOf(cuts) : Produced(result[1].cut_plan, l) >= 2

(* C2: for a valid input that returns, total_cost is the least cost of any  *)
(* purchase that admits a physical layout.                                  *)
C2_MinimumCost ==
    (Returned /\ ValidInput(cuts, boards)) =>
        result[1].total_cost = MinRealizableCost(cuts, boards)

(* C3: in every returned dict total_cost is the sum over board_plan of the  *)
(* count times the price of that input board, the count being the number    *)
(* of physical boards listed in cut_plan.                                   *)
C3_CostOfReportedBoards ==
    Returned =>
        /\ result[1].total_cost = PlanCost(result[1].board_plan, boards)
        /\ DOMAIN result[1].board_plan = DOMAIN result[1].cut_plan
        /\ \A i \in DOMAIN result[1].board_plan : result[1].board_plan[i] = Len(result[1].cut_plan[i])

\* the solver's objective value, summed over the groups of the call
RECURSIVE SolverObjective(_)
SolverObjective(log) == IF log = <<>> THEN 0 ELSE Head(log).objective + SolverObjective(Tail(log))

\* the reported boards cost more than the solver's own plan
C3_Witness ==
    /\ Returned
    /\ result[1].total_cost > 0
    /\ result[1].total_cost # SolverObjective(solver_log)

(* C4: on every physical board of a returned cut plan the cuts sum to at    *)
(* most the length of that input board, and every cut is longer than 0.     *)
C4_BoardsNotOverfilled ==
    Returned =>
        \A pb \in PhysicalBoards(result[1].cut_plan) :
            LET on_board == result[1].cut_plan[pb[1]][pb[2]]
            IN /\ boards[pb[1] + 1].length - SumSeq(on_board) >= 0
               /\ \A n \in 1..Len(on_board) : on_board[n] > 0

\* a board filled to its end by three cuts, another board with waste
C4_Witness ==
    /\ Returned
    /\ \E pb \in PhysicalBoards(result[1].cut_plan) :
         /\ Len(result[1].cut_plan[pb[1]][pb[2]]) = 3
         /\ SumSeq(result[1].cut_plan[pb[1]][pb[2]]) = boards[pb[1] + 1].length
    /\ \E pb \in PhysicalBoards(result[1].cut_plan) :
         SumSeq(result[1].cut_plan[pb[1]][pb[2]]) < boards[pb[1] + 1].length

----
(* Failures.  The raised error is [kind, args]; args are the values that    *)
(* the message interpolates, the cross-section last.                        *)

\* the cross-section that an error names: the last two values of its message
ErrorDim(e) == <<e.args[Len(e.args) - 1], e.args[Len(e.args)]>>

\* cross-sections of the cuts in order of first appearance, off the argument
RECURSIVE FirstAppearances(_)
FirstAppearances(cs) ==
    IF cs = <<>> THEN <<>>
    ELSE LET before == FirstAppearances(SubSeq(cs, 1, Len(cs) - 1))
             dim == DimOf(cs[Len(cs)])
         IN IF \E n \in 1..Len(before) : before[n] = dim THEN before ELSE Append(before, dim)

\* position of a cross-section in that order
PlaceOf(cs, dim) == CHOOSE n \in 1..Len(FirstAppearances(cs)) : FirstAppearances(cs)[n] = dim

\* the cuts whose cross-section no board has
Boardless(cs, bs) == {i \in 1..Len(cs) : OfferedFor(bs, DimOf(cs[i])) = {}}

\* the cuts longer than every board of their cross-section
Oversized(cs, bs) == {i \in 1..Len(cs) : OfferedFor(bs, DimOf(cs[i])) # {} /\ cs[i].length > LongestFor(bs, DimOf(cs[i]))}

\* the error of the call names a cross-section that comes before dim in the cuts
EarlierGroupFailed(dim) == PlaceOf(cuts, ErrorDim(error[1])) < PlaceOf(cuts, dim)

\* an argument that the engine is documented to reject
InvalidInput(cs, bs) ==
    \/ \E i \in 1..Len(cs) : cs[i].length <= 0 \/ cs[i].quantity <= 0
    \/ \E j \in 1..Len(bs) : bs[j].length <= 0 \/ bs[j].price <= 0

(* C5 as stated: a cut whose cross-section has no board makes the call end  *)
(* with NoBoardsForDimension, whatever the other groups contain.            *)
C5_AlwaysNoBoards ==
    (Ended /\ Boardless(cuts, boards) # {} /\ ~InvalidInput(cuts, boards)) =>
        /\ Failed
        /\ result = <<>>
        /\ error[1].kind = "NoBoardsForDimension"

(* C5 amended: such a call returns nothing and fails; the error is          *)
(* NoBoardsForDimension for the first cross-section without a board, or     *)
(* the failure of a cross-section that comes before it in the cuts.         *)
C5_NoBoardsOrEarlierFailure ==
    (Ended /\ Boardless(cuts, boards) # {}) =>
        /\ Failed
        /\ result = <<>>
        /\ LET first == MinOf(Boardless(cuts, boards))
               dim == DimOf(cuts[first])
           IN \/ error[1] = [kind |-> "NoBoardsForDimension", args |-> <<dim[1], dim[2]>>]
              \/ EarlierGroupFailed(dim)

\* the boardless cross-section is the second group, the first was packed
C5_Witness ==
    /\ Failed
    /\ ~InvalidInput(cuts, boards)
    /\ error[1].kind = "NoBoardsForDimension"
    /\ gi = 2
    /\ DOMAIN total_cut_plan # {}
    /\ Boardless(cuts, boards) # {}

(* C6 as stated: a cut longer than every board of its cross-section makes   *)
(* the call end with CutExceedsMaxBoard naming that cut length and that     *)
(* maximum; a cut as long as the longest board is accepted.                 *)
C6_AlwaysCutExceeds ==
    (Ended /\ ~InvalidInput(cuts, boards)) =>
        /\ \A i \in Oversized(cuts, boards) :
              /\ Failed
              /\ error[1] = [kind |-> "CutExceedsMaxBoard", args |-> <<cuts[i].length, LongestFor(boards, DimOf(cuts[i])), cuts[i].width, cuts[i].height>>]
        /\ (Failed /\ error[1].kind = "CutExceedsMaxBoard") => error[1].args[1] > error[1].args[2]

(* C6 amended: such a call returns nothing and fails; the error is          *)
(* CutExceedsMaxBoard naming the first such cut and the longest board of    *)
(* its cross-section, or the failure of a cross-section that comes before   *)
(* it in the cuts; CutExceedsMaxBoard is never raised for a cut that is at  *)
(* most as long as the longest board.                                       *)
C6_CutExceedsOrEarlierFailure ==
    Ended =>
        /\ Oversized(cuts, boards) # {} =>
              /\ Failed
              /\ result = <<>>
              /\ LET i == MinOf({k \in Oversized(cuts, boards) : \A m \in Oversized(cuts, boards) : PlaceOf(cuts, DimOf(cuts[k])) <= PlaceOf(cuts, DimOf(cuts[m]))})
                 IN \/ error[1] = [kind |-> "CutExceedsMaxBoard", args |-> <<cuts[i].length, LongestFor(boards, DimOf(cuts[i])), cuts[i].width, cuts[i].height>>]
                    \/ EarlierGroupFailed(DimOf(cuts[i]))
        /\ (Failed /\ error[1].kind = "CutExceedsMaxBoard") =>
              /\ error[1].args[1] > error[1].args[2]
              /\ \E i \in Oversized(cuts, boards) : cuts[i].length = error[1].args[1] /\ DimOf(cuts[i]) = ErrorDim(error[1])

\* a cut as long as the longest board passed, a longer one was refused
C6_Witness ==
    /\ Failed
    /\ ~InvalidInput(cuts, boards)
    /\ error[1].kind = "CutExceedsMaxBoard"
    /\ Len(cuts) = 2
    /\ \E i \in 1..Len(cuts) : OfferedFor(boards, DimOf(cuts[i])) # {} /\ cuts[i].length = LongestFor(boards, DimOf(cuts[i]))

(* C7: an input with a non-positive length, quantity or price never gets    *)
(* to pattern generation or to the solver, returns nothing and ends with    *)
(* InvalidInput.                                                            *)
C7_RejectsInvalidInput ==
    InvalidInput(cuts, boards) =>
        /\ pc \notin {"patterns", "model", "solve", "extract", "done"}
        /\ result = <<>>
        /\ Failed => error[1].kind = "InvalidInput"

(* C10: a call that fails returns nothing, whatever the groups before the   *)
(* failing one have added to the plans; a result comes only from a call     *)
(* in which no group failed.                                                *)
C10_FailFast ==
    /\ Failed => (result = <<>> /\ error # <<>>)
    /\ result # <<>> => (Returned /\ error = <<>> /\ gi = Len(cut_groups) + 1)

\* the second group failed after the first had been solved and packed
C10_Witness ==
    /\ Failed
    /\ gi = 2
    /\ DOMAIN total_board_plan # {}
    /\ total_cost > 0
    /\ result = <<>>

----
(* Repeated calls: the finished call against the noted earlier one          *)

\* the noted call returned a dict
NotedResult == last # <<>> /\ last[1].result # <<>>

\* cs2 is cs1 with the quantity of exactly one request made larger
OneQuantityLarger(cs1, cs2) ==
    /\ Len(cs1) = Len(cs2)
    /\ \E i \in 1..Len(cs1) :
         /\ cs2[i].quantity > cs1[i].quantity
         /\ cs2[i] = [cs1[i] EXCEPT !.quantity = cs2[i].quantity]
         /\ \A j \in 1..Len(cs1) : j # i => cs2[j] = cs1[j]

(* C8: with the boards the same and one quantity larger than in an earlier  *)
(* call (both inputs valid), total_cost is not below that of the earlier    *)
(* call.                                                                    *)
C8_Monotone ==
    (Returned /\ NotedResult /\ last[1].boards = boards /\ OneQuantityLarger(last[1].cuts, cuts)
       /\ ValidInput(cuts, boards) /\ ValidInput(last[1].cuts, boards)) =>
        result[1].total_cost >= last[1].result[1].total_cost

(* C9 as stated: a call with the cuts and boards of an earlier call returns *)
(* the same total_cost and board_plan, whichever of the equally cheap       *)
(* assignments the solver answers with.                                     *)
C9_SameInputSameResult ==
    (Returned /\ NotedResult /\ last[1].cuts = cuts /\ last[1].boards = boards) =>
        /\ result[1].total_cost = last[1].result[1].total_cost
        /\ result[1].board_plan = last[1].result[1].board_plan

\* the assignments that the solver answered with, group by group
Answers(log) == [n \in 1..Len(log) |-> log[n].values]

(* C9 amended: a call with the cuts and boards of an earlier call, in which *)
(* the solver answers with the same assignments, returns the same           *)
(* total_cost and board_plan, whatever calls were made in between.          *)
C9_SameAnswersSameResult ==
    (Returned /\ NotedResult /\ last[1].cuts = cuts /\ last[1].boards = boards
       /\ Answers(last[1].solver_log) = Answers(solver_log)) =>
        /\ result[1].total_cost = last[1].result[1].total_cost
        /\ result[1].board_plan = last[1].result[1].board_plan

\* the same input again after another call, the solver had a choice
C9_Witness ==
    /\ Returned
    /\ NotedResult
    /\ last[1].between
    /\ last[1].cuts = cuts
    /\ last[1].boards = boards
    /\ Answers(last[1].solver_log) = Answers(solver_log)
    /\ Cardinality(OptimalSolutions(pattern_vars, cut_requirements)) > 1
    /\ result[1].total_cost > 0

----
(* The shape of the returned dict                                           *)

(* C11: in every returned dict board_plan, cut_plan and waste_summary have  *)
(* the same keys, every key is a 0-based position of the boards argument,   *)
(* board_plan[i] is the number of physical boards listed in cut_plan[i] and *)
(* is > 0, and every listed physical board carries at least one cut.        *)
C11_PlansAgree ==
    Returned =>
        /\ DOMAIN result[1].board_plan = DOMAIN result[1].cut_plan
        /\ DOMAIN result[1].waste_summary = DOMAIN result[1].cut_plan
        /\ \A i \in DOMAIN result[1].board_plan :
             /\ i \in 0..(Len(boards) - 1)
             /\ result[1].board_plan[i] = Len(result[1].cut_plan[i])
             /\ result[1].board_plan[i] > 0
             /\ \A n \in 1..Len(result[1].cut_plan[i]) : Len(result[1].cut_plan[i][n]) >= 1

\* a result of two cross-sections in which an offered board type is not bought
C11_Witness ==
    /\ Returned
    /\ Len(cut_groups) = 2
    /\ Cardinality(DOMAIN result[1].board_plan) = 2
    /\ Len(boards) = 3
    /\ \E i \in DOMAIN result[1].board_plan : result[1].board_plan[i] >= 2

\* the waste of the physical boards n.. of one board type of the cut plan
RECURSIVE WasteOfBoards(_, _, _)
WasteOfBoards(cut_lists, n, length) ==
    IF n > Len(cut_lists) THEN 0
    ELSE (length - SumSeq(cut_lists[n])) + WasteOfBoards(cut_lists, n + 1, length)

(* C12: in every returned dict, for every board index i, waste_summary[i]   *)
(* is the sum over the physical boards of cut_plan[i] of the length of      *)
(* input board i minus the sum of that board's cuts.                        *)
C12_WasteOfListedBoards ==
    Returned =>
        \A i \in DOMAIN result[1].waste_summary :
            /\ i \in DOMAIN result[1].cut_plan
            /\ result[1].waste_summary[i] = WasteOfBoards(result[1].cut_plan[i], 1, boards[i + 1].length)

\* a board type with waste on more than one of its physical boards
C12_Witness ==
    /\ Returned
    /\ \E i \in DOMAIN result[1].waste_summary :
         /\ Len(result[1].cut_plan[i]) >= 2
         /\ \E n \in 2..Len(result[1].cut_plan[i]) : SumSeq(result[1].cut_plan[i][n]) < boards[i + 1].length
         /\ result[1].waste_summary[i] > boards[i + 1].length - SumSeq(result[1].cut_plan[i][1])

----
(* C16: the boards are chosen by price, not by waste: two pieces of 7 from  *)
(* boards of 8 at 10 and of 20 at 15 return total_cost 15 with one board of *)
(* 20 (waste 6), not two boards of 8 (cost 20, waste 2).                    *)
C16_PriceNotWaste ==
    (Ended /\ cuts = <<Cut(4, 7, 2)>> /\ boards = <<Board(4, 8, 10), Board(4, 20, 15)>>) =>
        /\ Returned
        /\ result[1].total_cost = 15
        /\ result[1].board_plan = [i \in {1} |-> 1]
        /\ result[1].cut_plan = [i \in {1} |-> <<<<7, 7>>>>]
        /\ result[1].waste_summary = [i \in {1} |-> 6]

\* the scenario has returned
C16_Witness ==
    /\ Returned
    /\ cuts = <<Cut(4, 7, 2)>>
    /\ boards = <<Board(4, 8, 10), Board(4, 20, 15)>>
    /\ result[1].total_cost < 2 * boards[1].price

----
(* The solver's own number of boards                                        *)

\* the variables that the call built for the group at position g
GroupVars(g) ==
    LET requirements == CutRequirements(GroupCuts(cuts, cut_groups[g]))
    IN PatternVars(BoardPatterns(GroupBoards(boards, cut_groups[g]), requirements), requirements)

\* the sum over the patterns P of the solved x[B, P], over the groups g.. of the call
RECURSIVE SolverBoards(_, _)
SolverBoards(board_idx, g) ==
    IF g > Len(solver_log) THEN 0
    ELSE TimesUsed(GroupVars(g), solver_log[g].values, board_idx) + SolverBoards(board_idx, g + 1)

(* C17: the reported number of boards of a type can differ from the         *)
(* solver's own: for four pieces of 3 and two of 4 from boards of 5 at 5    *)
(* and of 10 at 9 the solver plans two boards of 10 and the packer opens    *)
(* another number, which is the one reported.                               *)
C17_CountsDiffer ==
    (Returned /\ cuts = <<Cut(4, 3, 4), Cut(4, 4, 2)>> /\ boards = <<Board(4, 5, 5), Board(4, 10, 9)>>) =>
        /\ 1 \in DOMAIN result[1].board_plan
        /\ SolverBoards(1, 1) = 2
        /\ result[1].board_plan[1] # SolverBoards(1, 1)

\* a valid input has returned more boards of a type than the solver planned
C17_Witness ==
    /\ Returned
    /\ ValidInput(cuts, boards)
    /\ \E board_idx \in DOMAIN result[1].board_plan : result[1].board_plan[board_idx] > SolverBoards(board_idx, 1)

----
(* The solver's statuses                                                    *)

\* the solver was consulted for the group at gi, and this is what it said
Consulted == Len(solver_log) = gi /\ gi >= 1 /\ gi <= Len(cut_groups)

LastAnswer == solver_log[Len(solver_log)]

(* C13: for every group a status of optimal or feasible is a success whose  *)
(* values are extracted; every other outcome (infeasible, unbounded,        *)
(* abnormal, not solved, solver unavailable) ends the call with             *)
(* NoFeasiblePlan naming the group's cross-section, and no value is read    *)
(* after it.                                                                *)
C13_StatusDecides ==
    /\ (pc = "extract" \/ (Failed /\ Consulted)) =>
          IF LastAnswer.status \in {"OPTIMAL", "FEASIBLE"}
          THEN pc = "extract" /\ solution = LastAnswer.values
          ELSE /\ Failed
               /\ result = <<>>
               /\ error[1].kind = "NoFeasiblePlan"
               /\ error[1].args = <<cut_groups[gi][1], cut_groups[gi][2]>>
    /\ pc = "extract" => Consulted

(* C14: every call ends, in a result or in a failure, even when the solver  *)
(* would not answer by itself: the solver's call is cut off by a timeout.   *)
C14_EveryCallEnds == <>Ended

(* C15: every failure carries the cross-section of the group at which the   *)
(* call failed and the constraint that was violated.                        *)
C15_FailureNamesCrossSection ==
    Failed =>
        /\ error[1].kind \in {"NoBoardsForDimension", "CutExceedsMaxBoard", "NoValidPatterns", "NoPatternForLength", "NoFeasiblePlan"}
        /\ Len(error[1].args) >= 2
        /\ ErrorDim(error[1]) = cut_groups[gi]

----
(* The packer                                                               *)

\* the open boards on which a cut still fits
FitsOn(open, cut) == {i \in 1..Len(open) : open[i].remaining - cut >= 0}

(* C18: the packer takes the cuts in non-increasing order; a cut that fits  *)
(* on an open board goes on the one that is left with the least space, the  *)
(* earliest opened among equals, and otherwise on a new board; no board's   *)
(* remaining space is ever negative.                                        *)
C18_BestFitDecreasing ==
    [][(fn_pc = "place" /\ fn_sorted_cuts # <<>>) =>
         LET cut == Head(fn_sorted_cuts)
             fits == FitsOn(open_boards, cut)
         IN /\ \A n \in 1..Len(fn_sorted_cuts) : cut >= fn_sorted_cuts[n]
            /\ fn_sorted_cuts' = Tail(fn_sorted_cuts)
            /\ IF fits # {}
               THEN \E b \in fits :
                      /\ \A j \in fits : open_boards[b].remaining <= open_boards[j].remaining
                      /\ \A j \in fits : open_boards[j].remaining = open_boards[b].remaining => b <= j
                      /\ open_boards' = [open_boards EXCEPT ![b] = [remaining |-> open_boards[b].remaining - cut, cuts |-> Append(open_boards[b].cuts, cut)]]
               ELSE open_boards' = Append(open_boards, [remaining |-> fn_board_length - cut, cuts |-> <<cut>>])
            /\ \A i \in 1..Len(open_boards') : open_boards'[i].remaining >= 0]_vars

\* a cut went on the earlier of two boards with the same space left: the
\* later board holds only the cut it was opened for, which is longer than
\* the last cut of the earlier board
C18_Witness ==
    /\ fn_pc = "place"
    /\ \E i, j \in 1..Len(open_boards) :
         /\ i < j
         /\ Len(open_boards[j].cuts) = 1
         /\ Len(open_boards[i].cuts) >= 2
         /\ open_boards[i].cuts[Len(open_boards[i].cuts)] < open_boards[j].cuts[1]
         /\ open_boards[i].remaining + open_boards[i].cuts[Len(open_boards[i].cuts)] = open_boards[j].remaining

\* occurrences of l over a list of boards' cut lists
RECURSIVE CountInBoards(_, _)
CountInBoards(cut_lists, l) ==
    IF cut_lists = <<>> THEN 0
    ELSE Occurrences(Head(cut_lists), l) + CountInBoards(Tail(cut_lists), l)

(* C19: the packer opens a board only for a cut that fits on none of the    *)
(* boards open so far; every returned board holds a cut, there are at most  *)
(* as many boards as cuts, and the returned boards hold the bag, each       *)
(* length as often as the bag does.                                         *)
C19_NewBoardOnlyWhenNeeded ==
    [][/\ (fn_pc = "place" /\ Len(open_boards') # Len(open_boards)) =>
            /\ FitsOn(open_boards, Head(fn_sorted_cuts)) = {}
            /\ Len(open_boards') = Len(open_boards) + 1
       /\ (fn_pc \in {"pack", "place"} /\ fn_pc' = "packed") =>
            /\ \A i \in 1..Len(returned'[1]) : Len(returned'[1][i]) >= 1
            /\ Len(returned'[1]) <= Len(fn_cuts_list)
            /\ \A l \in {fn_cuts_list[n] : n \in 1..Len(fn_cuts_list)} \cup UNION {{returned'[1][i][n] : n \in 1..Len(returned'[1][i])} : i \in 1..Len(returned'[1])} :
                 CountInBoards(returned'[1], l) = Occurrences(fn_cuts_list, l)]_vars

\* fewer boards than cuts, more than one board
C19_Witness ==
    /\ fn_pc = "packed"
    /\ Len(returned[1]) >= 2
    /\ Len(returned[1]) < Len(fn_cuts_list)
    /\ \E i \in 1..Len(returned[1]) : Len(returned[1][i]) >= 2

----
(* The pattern generator                                                    *)

(* C20: every returned pattern has a length with count >= 1 and none with   *)
(* count 0, has only lengths of cut_lengths, and the lengths times their    *)
(* counts sum to at most board_length.                                      *)
C20_PatternsFit ==
    fn_pc = "generated" =>
        \A n \in 1..Len(returned[1]) :
            LET pattern == returned[1][n]
            IN /\ DOMAIN pattern # {}
               /\ \A l \in DOMAIN pattern : pattern[l] >= 1
               /\ DOMAIN pattern \subseteq {fn_cut_lengths[i] : i \in 1..Len(fn_cut_lengths)}
               /\ LengthOfPieces(pattern) <= fn_board_length

\* patterns of one and of two lengths, one of them filling the board
C20_Witness ==
    /\ fn_pc = "generated"
    /\ Len(returned[1]) >= 3
    /\ \E n \in 1..Len(returned[1]) : Cardinality(DOMAIN returned[1][n]) = 2 /\ LengthOfPieces(returned[1][n]) = fn_board_length
    /\ \E n \in 1..Len(returned[1]) : \E l \in DOMAIN returned[1][n] : returned[1][n][l] >= 3

\* set(cut_lengths), line 79
GivenLengths == {fn_cut_lengths[i] : i \in 1..Len(fn_cut_lengths)}

\* the non-empty multisets over the lengths S that fit on a board of length b
FeasiblePatterns(S, b) ==
    {m \in UNION {[T -> 1..FloorDiv(b, MinOf(T))] : T \in (SUBSET S) \ {{}}} :
        LengthOfPieces(m) <= b}

(* C21: two patterns at different positions of the returned list differ in  *)
(* the count of some length, also when cut_lengths holds a value twice.     *)
C21_NoDuplicatePatterns ==
    fn_pc = "generated" =>
        \A m, n \in 1..Len(returned[1]) :
            m # n => \E l \in GivenLengths :
                        Get(returned[1][m], l, 0) # Get(returned[1][n], l, 0)

\* a length given twice, and patterns of two lengths among the returned ones
C21_Witness ==
    /\ fn_pc = "generated"
    /\ \E i, j \in 1..Len(fn_cut_lengths) : i # j /\ fn_cut_lengths[i] = fn_cut_lengths[j]
    /\ Cardinality(GivenLengths) >= 2
    /\ \E n \in 1..Len(returned[1]) : Cardinality(DOMAIN returned[1][n]) = 2
    /\ Len(returned[1]) >= 5

(* C22: for positive cut lengths, when fewer patterns fit than max_patterns *)
(* every non-empty multiset over the distinct cut lengths whose total is at *)
(* most board_length is in the returned list.                               *)
C22_Exhaustive ==
    (/\ fn_pc = "generated"
     /\ \A l \in GivenLengths : l > 0
     /\ Cardinality(FeasiblePatterns(GivenLengths, fn_board_length)) < fn_max_patterns) =>
        \A m \in FeasiblePatterns(GivenLengths, fn_board_length) :
            \E n \in 1..Len(returned[1]) : returned[1][n] = m

\* ten or more patterns fit, below the cap, one with a length taken twice
\* together with another length
C22_Witness ==
    /\ fn_pc = "generated"
    /\ Cardinality(FeasiblePatterns(GivenLengths, fn_board_length)) >= 10
    /\ Cardinality(FeasiblePatterns(GivenLengths, fn_board_length)) < fn_max_patterns
    /\ \E n \in 1..Len(returned[1]) :
          /\ Cardinality(DOMAIN returned[1][n]) >= 2
          /\ \E l \in DOMAIN returned[1][n] : returned[1][n][l] >= 2

(* C23: the returned list has at most max_patterns patterns; when more      *)
(* patterns fit than max_patterns it has exactly max_patterns of them and   *)
(* leaves out a pattern that fits.                                          *)
C23_AtMostCap ==
    fn_pc = "generated" =>
        /\ Len(returned[1]) <= fn_max_patterns
        /\ Cardinality(FeasiblePatterns(GivenLengths, fn_board_length)) > fn_max_patterns =>
              /\ Len(returned[1]) = fn_max_patterns
              /\ \E m \in FeasiblePatterns(GivenLengths, fn_board_length) :
                    \A n \in 1..Len(returned[1]) : returned[1][n] # m

\* a cap of 3 that is reached: a pattern of the smallest length alone is left out
C23_Witness ==
    /\ fn_pc = "generated"
    /\ fn_max_patterns = 3
    /\ Len(returned[1]) = 3
    /\ Cardinality(GivenLengths) >= 2
    /\ \A n \in 1..Len(returned[1]) : returned[1][n] # [l \in {MinOf(GivenLengths)} |-> 1]

----
(* The defensive failure of line 257                                        *)

(* C24: an input in which every cross-section has a board and no cut is     *)
(* longer than the longest board of its cross-section never ends with       *)
(* NoPatternForLength, also when the enumeration stops at max_patterns.     *)
C24_NoPatternUnreachable ==
    ValidInput(cuts, boards) => ~(Failed /\ error[1].kind = "NoPatternForLength")

----
(* The bounds of the solver's variables                                     *)

\* the variables with the upper bound of line 245 lifted to n
WithUpperBound(pvars, n) == [k \in 1..Len(pvars) |-> [pvars[k] EXCEPT !.ub = n]]

\* the assignments of non-negative integers that satisfy the equalities of
\* lines 261-263, whatever the bounds: no value exceeds the whole demand
ExactAssignments(pvars, requirements) ==
    FeasibleFrom(WithUpperBound(pvars, SumValues(requirements)), 1, requirements)

(* C25: every assignment of non-negative integers that satisfies the        *)
(* equalities of exact demand has every variable within its upper bound,    *)
(* and the model with the bounds has the optimal assignments of the model   *)
(* without them.                                                            *)
C25_BoundsExcludeNothing ==
    pc = "solve" =>
        /\ \A s \in ExactAssignments(pattern_vars, cut_requirements) :
              \A k \in 1..Len(pattern_vars) : s[2][k] <= pattern_vars[k].ub
        /\ OptimalSolutions(pattern_vars, cut_requirements)
             = OptimalSolutions(WithUpperBound(pattern_vars, SumValues(cut_requirements)), cut_requirements)

\* several assignments meet the demand, one takes a pattern three times,
\* and some variable's bound is below the whole demand
C25_Witness ==
    /\ pc = "solve"
    /\ Cardinality(ExactAssignments(pattern_vars, cut_requirements)) >= 3
    /\ \E s \in ExactAssignments(pattern_vars, cut_requirements) :
          \E k \in 1..Len(pattern_vars) : s[2][k] >= 3
    /\ \E k \in 1..Len(pattern_vars) : pattern_vars[k].ub < SumValues(cut_requirements)

----
(* Boards that hold none of the cuts                                        *)

\* the 0-based positions of the boards that are shorter than every cut of
\* their own cross-section, a cross-section that has cuts
TooShortBoards(cs, bs) ==
    {j - 1 : j \in {i \in 1..Len(bs) :
        /\ \E c \in 1..Len(cs) : DimOf(cs[c]) = DimOf(bs[i])
        /\ \A c \in 1..Len(cs) : DimOf(cs[c]) = DimOf(bs[i]) => cs[c].length > bs[i].length}}

(* C26: a board that is shorter than every required length of its group     *)
(* has no pattern set and no solver variable, and is no key of board_plan,  *)
(* cut_plan or waste_summary; a valid input with such a board still         *)
(* returns a result.                                                        *)
C26_ShortBoardLeftOut ==
    /\ pc \in {"model", "solve", "extract"} =>
          \A j \in TooShortBoards(cuts, boards) :
              /\ \A n \in 1..Len(board_patterns) : board_patterns[n].board_idx # j
              /\ \A k \in 1..Len(pattern_vars) : pattern_vars[k].board_idx # j
    /\ Returned =>
          \A j \in TooShortBoards(cuts, boards) :
              /\ j \notin DOMAIN result[1].board_plan
              /\ j \notin DOMAIN result[1].cut_plan
              /\ j \notin DOMAIN result[1].waste_summary
    /\ (Ended /\ ValidInput(cuts, boards) /\ TooShortBoards(cuts, boards) # {}) => Returned

\* a returned plan for an input whose first board is shorter than the cuts
C26_Witness ==
    /\ Returned
    /\ ValidInput(cuts, boards)
    /\ 0 \in TooShortBoards(cuts, boards)
    /\ DOMAIN result[1].board_plan = {1}
    /\ result[1].board_plan[1] >= 2

----
(* Cross-sections                                                           *)

\* the cross-sections of the cuts and of the boards
AllDims(cs, bs) == {DimOf(cs[c]) : c \in 1..Len(cs)} \cup {DimOf(bs[j]) : j \in 1..Len(bs)}

\* the physical boards of the cut plan that are cut from boards of cross-section dim
PhysicalBoardsOfDim(cut_plan, bs, dim) == {pb \in PhysicalBoards(cut_plan) : DimOf(bs[pb[1] + 1]) = dim}

\* the cuts of cross-section dim, in the order of the argument
CutsOfDim(cs, dim) == SelectSeq(cs, LAMBDA c : DimOf(c) = dim)

(* C27: in every returned result the pieces laid on the boards of a         *)
(* cross-section are, length by length, the pieces asked for in that        *)
(* cross-section, also for a length asked for in several cross-sections;    *)
(* a board of a cross-section without cuts is no key of the result.         *)
C27_CrossSectionIsolation ==
    Returned =>
        /\ \A dim \in AllDims(cuts, boards) :
              \A l \in CutLengthsOf(cuts) \cup PlanLengths(result[1].cut_plan) :
                  SumOccurrences(result[1].cut_plan, PhysicalBoardsOfDim(result[1].cut_plan, boards, dim), l)
                      = Demand(CutsOfDim(cuts, dim), l)
        /\ \A j \in DOMAIN result[1].board_plan \cup DOMAIN result[1].cut_plan \cup DOMAIN result[1].waste_summary :
              CutsOfDim(cuts, DimOf(boards[j + 1])) # <<>>

\* pieces of 3 are asked for in 2x4 and in 2x6, in different numbers, and
\* both cross-sections have boards in the returned plan
C27_Witness ==
    /\ Returned
    /\ Len(cuts) = 2
    /\ DimOf(cuts[1]) # DimOf(cuts[2])
    /\ cuts[1].length = cuts[2].length
    /\ cuts[1].quantity > cuts[2].quantity
    /\ cuts[2].quantity > 0
    /\ \E i, j \in DOMAIN result[1].cut_plan : DimOf(boards[i + 1]) # DimOf(boards[j + 1])

\* the boards of cross-section dim, in the order of the argument
BoardsOfDim(bs, dim) == SelectSeq(bs, LAMBDA b : DimOf(b) = dim)

\* the 0-based positions in bs of the boards of cross-section dim, in order
PositionsOfDim(bs, dim) == SelectSeq([j \in 1..Len(bs) |-> j - 1], LAMBDA j : DimOf(bs[j + 1]) = dim)

\* what a call with the cuts and the boards of cross-section dim alone builds
AlonePatterns(dim) ==
    BoardPatterns(GroupBoards(BoardsOfDim(boards, dim), dim), CutRequirements(GroupCuts(CutsOfDim(cuts, dim), dim)))

AloneVars(dim) == PatternVars(AlonePatterns(dim), CutRequirements(GroupCuts(CutsOfDim(cuts, dim), dim)))

\* and what it returns when the solver answers as it did for group g
AloneResult(g) ==
    ExtractAll(Totals(EmptyDict, EmptyDict, 0, EmptyDict), AlonePatterns(cut_groups[g]), AloneVars(cut_groups[g]), solver_log[g].values)

RECURSIVE SumAloneCosts(_)
SumAloneCosts(g) == IF g = 0 THEN 0 ELSE AloneResult(g).total_cost + SumAloneCosts(g - 1)

(* C28: in a returned result the entries of board_plan, cut_plan and        *)
(* waste_summary for the boards of a cross-section are those of a call with *)
(* the cuts and boards of that cross-section alone (positions translated),  *)
(* the solver being given the same model and answering the same; the total  *)
(* cost is the sum of the costs of these calls.                             *)
C28_GroupIndependence ==
    Returned =>
        /\ \A g \in 1..Len(cut_groups) :
              LET dim == cut_groups[g]
                  whole == PositionsOfDim(boards, dim)
                  alone == AloneResult(g)
                  alone_vars == AloneVars(dim)
              IN /\ GroupVars(g) = [k \in 1..Len(alone_vars) |->
                                       [alone_vars[k] EXCEPT !.board_idx = whole[alone_vars[k].board_idx + 1]]]
                 /\ \A k \in 1..Len(whole) :
                       /\ whole[k] \in DOMAIN result[1].board_plan <=> (k - 1) \in DOMAIN alone.board_plan
                       /\ whole[k] \in DOMAIN result[1].cut_plan <=> (k - 1) \in DOMAIN alone.cut_plan
                       /\ whole[k] \in DOMAIN result[1].waste_summary <=> (k - 1) \in DOMAIN alone.waste_summary
                       /\ (k - 1) \in DOMAIN alone.board_plan =>
                             /\ result[1].board_plan[whole[k]] = alone.board_plan[k - 1]
                             /\ result[1].cut_plan[whole[k]] = alone.cut_plan[k - 1]
                             /\ result[1].waste_summary[whole[k]] = alone.waste_summary[k - 1]
        /\ result[1].total_cost = SumAloneCosts(Len(cut_groups))

\* both cross-sections have boards in the plan, the 2x6 board lies between
\* the 2x4 boards, and the second 2x4 board is bought
C28_Witness ==
    /\ Returned
    /\ Len(cut_groups) = 2
    /\ PositionsOfDim(boards, <<2, 4>>) = <<0, 2>>
    /\ {1, 2} \subseteq DOMAIN result[1].board_plan
    /\ AloneResult(1).total_cost > 0
    /\ AloneResult(2).total_cost > 0

----
(* Requests of equal length                                                 *)

\* cs1 and cs2 ask for the same cross-sections and lengths, and for every
\* length of a cross-section for the same number of pieces in all
SameDemand(cs1, cs2) ==
    /\ {<<DimOf(cs1[c]), cs1[c].length>> : c \in 1..Len(cs1)} = {<<DimOf(cs2[c]), cs2[c].length>> : c \in 1..Len(cs2)}
    /\ \A c \in 1..Len(cs1) :
          Demand(CutsOfDim(cs1, DimOf(cs1[c])), cs1[c].length) = Demand(CutsOfDim(cs2, DimOf(cs1[c])), cs1[c].length)

(* C29: the requirement map of a group holds for every length the sum of    *)
(* the quantities of the requests of that length; a call whose requests are *)
(* those of an earlier call with the requests of a length split or joined,  *)
(* in any order, returns the same result when the solver answers the same.  *)
C29_EqualLengthsMerged ==
    /\ pc \in {"patterns", "model", "solve", "extract"} =>
          /\ DOMAIN cut_requirements = CutLengthsOf(CutsOfDim(cuts, cut_groups[gi]))
          /\ \A l \in DOMAIN cut_requirements :
                cut_requirements[l] = Demand(CutsOfDim(cuts, cut_groups[gi]), l)
    /\ (Returned /\ NotedResult /\ last[1].boards = boards /\ SameDemand(last[1].cuts, cuts)
           /\ Answers(last[1].solver_log) = Answers(solver_log)) =>
          result = last[1].result

\* a request for two pieces of 3 after the request for 4 in the earlier
\* call, two requests for one piece of 3 around the request for 4 now
C29_Witness ==
    /\ Returned
    /\ NotedResult
    /\ last[1].cuts = <<Cut(4, 4, 1), Cut(4, 3, 2)>>
    /\ cuts = <<Cut(4, 3, 1), Cut(4, 4, 1), Cut(4, 3, 1)>>
    /\ Answers(last[1].solver_log) = Answers(solver_log)
    /\ result = last[1].result
    /\ result[1].total_cost > 0

----
(* The arguments                                                            *)

\* A Python list or dict is an object: it can be changed in place, and it
\* is known here by the place where it was made.  A number cannot be
\* changed in place.
Object(id) == [kind |-> "object", id |-> id, value |-> 0]

Number(n) == [kind |-> "number", id |-> <<>>, value |-> n]

\* the objects of the arguments: the cuts list, the boards list and every
\* record in them, by 0-based position
ArgumentObjects(cs, bs) ==
    {<<"cuts">>, <<"boards">>} \cup {<<"cuts", i - 1>> : i \in 1..Len(cs)} \cup {<<"boards", j - 1>> : j \in 1..Len(bs)}

\* PieceHeld that puts the request of the piece into the cut list: the
\* first dict of cuts with that length
PieceHeld_request(cut_len) ==
    Object(<<"cuts", (CHOOSE i \in 1..Len(cuts) : cuts[i].length = cut_len /\ \A j \in 1..(i - 1) : cuts[j].length # cut_len) - 1>>)

\* what a cut list holds for a piece: lines 298, 147 and 150 put cut_len
\* there, the key of the pattern, which is the number cut['length'] of
\* lines 212-216
PieceHeld(cut_len) == Number(cut_len)

\* the list of a physical board, [cut] of line 150: a new list for every
\* board the packer opens, the k-th of its board type in cut_plan
CutListObject(board_idx, k) == Object(<<"line 150", board_idx, k>>)

\* the list of a board type, [] of line 313, which line 314 extends
BoardTypeListObject(board_idx) == Object(<<"line 313", board_idx>>)

\* all that is reached from the lists of cut_plan: the list of every board
\* type, the cut list of every physical board and what the cut lists hold
ReachableFromCutPlan(cut_plan) ==
    UNION {{BoardTypeListObject(b)}
           \cup {CutListObject(b, k) : k \in 1..Len(cut_plan[b])}
           \cup UNION {{PieceHeld(cut_plan[b][k][n]) : n \in 1..Len(cut_plan[b][k])} : k \in 1..Len(cut_plan[b])}
           : b \in DOMAIN cut_plan}

\* nothing reached from the lists of cut_plan is an object of the arguments
SharesNoObject ==
    \A o \in ReachableFromCutPlan(result[1].cut_plan) :
        o.kind = "object" => o.id \notin ArgumentObjects(cuts, boards)

====
